---------------------------- MODULE Spec2Model ----------------------------
(***************************************************************************)
(* Product-catalog retrieval (search.py): the module-level indexing of the *)
(* catalog into the vector collection, vector search (search_products),   *)
(* LLM ranking (semantic_search) and the deduplicating merge              *)
(* (hybrid_search).                                                        *)
(***************************************************************************)
EXTENDS Integers, Sequences, FiniteSets, TLC

VARIABLES
    products,          \* the catalog loaded from products.json
    collection,        \* the "products" collection of the Qdrant client
    pc,                \* position of the module-level script
    op,                \* entry point of the last call
    query,             \* its query
    top_k,             \* its top_k
    brand_filter,      \* its brand_filter (None for the other entry points)
    response,          \* what the LLM service answered to the call
    hits,              \* what client.search returned to the call
    vector_results,    \* hybrid_search: vector_results
    semantic_results,  \* hybrid_search: semantic_results
    results,           \* the value the call returned
    raised,            \* the exception that left the call, "none" if none
    calls              \* external calls the call made

vars == <<products, collection, pc, op, query, top_k, brand_filter, response,
          hits, vector_results, semantic_results, results, raised, calls>>

(***************************************************************************)
(* Bounds of the model.                                                    *)
(***************************************************************************)
MaxProducts == 3
MaxTopK == 2
MaxResults == 2

(***************************************************************************)
(* Python values and list operations.                                      *)
(***************************************************************************)
\* None and a string value s, as the optional parameter brand_filter holds them
None == <<>>
Str(s) == <<s>>

\* truth value of an optional string: None and "" are false
Truthy(v) == v # None /\ v[1] # ""

Min(a, b) == IF a <= b THEN a ELSE b
Max(a, b) == IF a >= b THEN a ELSE b

\* lst[j] for a 0-based Python index j: a negative j counts from the end
PyIndexOk(lst, j) == 0 - Len(lst) <= j /\ j < Len(lst)
PyIndex(lst, j) == IF j >= 0 THEN lst[j + 1] ELSE lst[Len(lst) + j + 1]

\* lst[:k]: a negative k drops the last -k items
PySlice(lst, k) ==
    IF k >= 0 THEN SubSeq(lst, 1, Min(k, Len(lst)))
    ELSE SubSeq(lst, 1, Max(Len(lst) + k, 0))

(***************************************************************************)
(* The catalog: products.json holds records with these five fields.  Two   *)
(* of the entries below share the name "A".                                *)
(***************************************************************************)
Product(n, d, p, b, c) ==
    [name |-> n, description |-> d, price |-> p, brand |-> b, category |-> c]

ProductPool ==
    { Product("A", "phone", 100, "X", "phones"),
      Product("A", "phone case", 20, "Y", "accessories"),
      Product("B", "case", 10, "Y", "accessories"),
      Product("C", "case", 15, "X", "accessories") }

RECURSIVE SeqsUpTo(_, _)
SeqsUpTo(S, n) ==
    IF n = 0 THEN {<<>>}
    ELSE LET shorter == SeqsUpTo(S, n - 1)
         IN  shorter \cup {Append(s, x) : s \in {t \in shorter : Len(t) = n - 1}, x \in S}

\* the catalogs: lists of up to MaxProducts different products
Catalogs ==
    {c \in SeqsUpTo(ProductPool, MaxProducts) :
        \A i, j \in 1..Len(c) : i # j => c[i] # c[j]}

Queries == {"phone", "phone case"}

(***************************************************************************)
(* The embedding provider: a deterministic map from text to a vector of a  *)
(* fixed dimension.  Every vector below has the same norm, so the order of *)
(* cosine similarities is the order of dot products.                       *)
(***************************************************************************)
Encode(text) ==
    CASE text = "phone"        -> <<5, 0>>
      [] text = "phone case"   -> <<4, 3>>
      [] text = "A phone"      -> <<5, 0>>
      [] text = "A phone case" -> <<4, 3>>
      [] text = "B case"       -> <<0, 5>>
      [] text = "C case"       -> <<0, 5>>
      [] OTHER                 -> <<3, 4>>

EmbeddingDimension == Len(Encode(""))

Cosine(u, v) == u[1] * v[1] + u[2] * v[2]

(***************************************************************************)
(* Module-level indexing.                                                  *)
(***************************************************************************)
NoCollection == [exists |-> FALSE, size |-> 0, points |-> {}]

\* PointStruct for the product at enumerate() position idx
PointStruct(idx, product) ==
    [id |-> idx,
     vector |-> Encode(product.name \o " " \o product.description),
     payload |-> [name |-> product.name, price |-> product.price,
                  brand |-> product.brand, category |-> product.category]]

PointIdOffByOne(catalog, i) == PointStruct(i, catalog[i])

\* the point built in iteration i (1-based) of the loop over enumerate(products)
PointOf(catalog, i) == PointStruct(i - 1, catalog[i])

Points(catalog) == {PointOf(catalog, i) : i \in 1..Len(catalog)}

\* client.upsert: a point replaces the stored point with the same id
Upsert(stored, new) ==
    {p \in stored : \A n \in new : n.id # p.id} \cup new

\* a collection an earlier run left on the client
StaleCatalog ==
    [i \in 1..(MaxProducts + 1) |-> Product("Old", "phone", i, "Z", "phones")]

StaleCollection ==
    [exists |-> TRUE, size |-> EmbeddingDimension, points |-> Points(StaleCatalog)]

\* try: get_collection; delete_collection / except: pass
DropExisting ==
    /\ pc = "drop"
    /\ collection' = IF collection.exists THEN NoCollection ELSE collection
    /\ pc' = "create"
    /\ UNCHANGED <<products, op, query, top_k, brand_filter, response, hits,
                   vector_results, semantic_results, results, raised, calls>>

\* client.create_collection: fails when the collection exists
CreateCollection ==
    /\ pc = "create"
    /\ IF collection.exists
       THEN /\ pc' = "failed"
            /\ UNCHANGED collection
       ELSE /\ collection' = [exists |-> TRUE, size |-> EmbeddingDimension,
                              points |-> {}]
            /\ pc' = "upsert"
    /\ UNCHANGED <<products, op, query, top_k, brand_filter, response, hits,
                   vector_results, semantic_results, results, raised, calls>>

\* the loop building points, then client.upsert
UpsertPoints ==
    /\ pc = "upsert"
    /\ collection' = [collection EXCEPT !.points = Upsert(@, Points(products))]
    /\ pc' = "serving"
    /\ UNCHANGED <<products, op, query, top_k, brand_filter, response, hits,
                   vector_results, semantic_results, results, raised, calls>>

(***************************************************************************)
(* Vector search.                                                          *)
(***************************************************************************)
\* Filter(must=[FieldCondition(key="brand", match=MatchValue(value=f))])
Matches(points, query_filter) ==
    {p \in points : query_filter = None \/ p.payload.brand = query_filter[1]}

ScoredPoint(p, query_vector) ==
    [id |-> p.id, payload |-> p.payload, score |-> Cosine(query_vector, p.vector)]

\* the rankings of the k nearest points of S: best score first, ties in any order
RECURSIVE Nearest(_, _, _)
Nearest(S, query_vector, k) ==
    IF k <= 0 \/ S = {} THEN {<<>>}
    ELSE LET best == {p \in S : \A o \in S :
                         Cosine(query_vector, o.vector) <= Cosine(query_vector, p.vector)}
         IN  UNION { {<<ScoredPoint(p, query_vector)>> \o rest :
                         rest \in Nearest(S \ {p}, query_vector, k - 1)} : p \in best }

\* client.search(collection_name, query_vector, query_filter, limit): the answers
\* the index may give.  What it does with a limit below 1 is not fixed by the
\* program: it may refuse the query or answer with a ranking of any length.
ClientSearch(coll, query_vector, query_filter, limit) ==
    LET matching == Matches(coll.points, query_filter)
    IN  IF limit >= 1
        THEN {[error |-> FALSE, hits |-> h] : h \in Nearest(matching, query_vector, limit)}
        ELSE {[error |-> TRUE, hits |-> <<>>]} \cup
             {[error |-> FALSE, hits |-> h] :
                 h \in UNION {Nearest(matching, query_vector, k) :
                                 k \in 0..Cardinality(matching)}}

\* the filter search_products hands to the index
QdrantFilter(brand) == IF Truthy(brand) THEN brand ELSE None

\* the dictionary search_products builds for one hit
ResultOf(hit) ==
    [name |-> hit.payload.name, price |-> hit.payload.price,
     brand |-> hit.payload.brand, category |-> hit.payload.category,
     score |-> hit.score]

ResultList(hs) == [i \in 1..Len(hs) |-> ResultOf(hs[i])]

\* search_products(query, top_k, brand_filter): its possible outcomes
search_products(coll, q, k, brand) ==
    LET query_vector == Encode(q)
        qdrant_filter == QdrantFilter(brand)
    IN  { [raised |-> IF a.error THEN "SearchError" ELSE "none",
           hits |-> a.hits,
           value |-> ResultList(a.hits)] :
          a \in ClientSearch(coll, query_vector, qdrant_filter, k) }

TopKs == (0 - 1)..MaxTopK

BrandFilters == {None, Str(""), Str("X"), Str("Y"), Str("W")}

SearchProducts ==
    /\ pc = "serving"
    /\ \E q \in Queries, k \in TopKs, b \in BrandFilters :
         \E out \in search_products(collection, q, k, b) :
            /\ op' = "search_products"
            /\ query' = q
            /\ top_k' = k
            /\ brand_filter' = b
            /\ response' = <<>>
            /\ hits' = out.hits
            /\ vector_results' = <<>>
            /\ semantic_results' = <<>>
            /\ results' = out.value
            /\ raised' = out.raised
            /\ calls' = [encode |-> 1, search |-> 1, llm |-> 0]
    /\ pc' = "returned"
    /\ UNCHANGED <<products, collection>>

(***************************************************************************)
(* Semantic search: one request to the LLM service and the parsing of its  *)
(* answer.                                                                 *)
(***************************************************************************)
\* an answer of the service: how the transport ended, the HTTP status, whether
\* the body parses as JSON and holds choices[0].message.content, whether that
\* content parses as JSON and holds "results", and the list under "results"
OkResponse(indices) ==
    [transport |-> "ok", status |-> 200, body |-> "json", has_content |-> TRUE,
     content |-> "json", has_results |-> TRUE, results |-> indices]

FailedResponses ==
    { [OkResponse(<<1>>) EXCEPT !.transport = "ConnectError"],
      [OkResponse(<<1>>) EXCEPT !.transport = "TimeoutException"],
      [OkResponse(<<1>>) EXCEPT !.status = 500],
      [OkResponse(<<1>>) EXCEPT !.body = "malformed"],
      [OkResponse(<<1>>) EXCEPT !.has_content = FALSE],
      [OkResponse(<<1>>) EXCEPT !.content = "malformed"],
      [OkResponse(<<1>>) EXCEPT !.has_results = FALSE] }

\* the indices the service may name for n listed products
IndexValues(n) == (0 - 1)..(n + 1)

Responses(n) ==
    FailedResponses \cup {OkResponse(ix) : ix \in SeqsUpTo(IndexValues(n), MaxResults)}

ListComprehensionZeroBased(products_data, indices) ==
    IF \E k \in 1..Len(indices) : ~PyIndexOk(products_data, indices[k])
    THEN [exc |-> "IndexError", value |-> <<>>]
    ELSE [exc |-> "none",
          value |-> [k \in 1..Len(indices) |-> PyIndex(products_data, indices[k])]]

\* [products_data[i-1] for i in indices]
ListComprehension(products_data, indices) ==
    IF \E k \in 1..Len(indices) : ~PyIndexOk(products_data, indices[k] - 1)
    THEN [exc |-> "IndexError", value |-> <<>>]
    ELSE [exc |-> "none",
          value |-> [k \in 1..Len(indices) |-> PyIndex(products_data, indices[k] - 1)]]

\* the body of the try block: the exception it ends with, or the value it returns
TryBody(resp, products_data) ==
    IF resp.transport # "ok" THEN [exc |-> resp.transport, value |-> <<>>]
    ELSE IF ~(resp.status \in 200..299) THEN [exc |-> "HTTPStatusError", value |-> <<>>]
    ELSE IF resp.body # "json" THEN [exc |-> "JSONDecodeError", value |-> <<>>]
    ELSE IF ~resp.has_content THEN [exc |-> "KeyError", value |-> <<>>]
    ELSE IF resp.content # "json" THEN [exc |-> "JSONDecodeError", value |-> <<>>]
    ELSE IF ~resp.has_results THEN [exc |-> "KeyError", value |-> <<>>]
    ELSE ListComprehension(products_data, resp.results)

HttpErrors == {"ConnectError", "TimeoutException", "HTTPStatusError"}

ExceptHttpErrorOnly(resp, products_data) ==
    LET body == TryBody(resp, products_data)
    IN  IF body.exc \in HttpErrors THEN [raised |-> "none", value |-> <<>>]
        ELSE [raised |-> body.exc, value |-> body.value]

\* semantic_search given the service's answer: except Exception returns []
semantic_search(resp, products_data) ==
    LET body == TryBody(resp, products_data)
    IN  IF body.exc # "none" THEN [raised |-> "none", value |-> <<>>]
        ELSE [raised |-> "none", value |-> body.value]

SemanticSearch ==
    /\ pc = "serving"
    /\ \E q \in Queries, k \in TopKs, resp \in Responses(Len(products)) :
         LET out == semantic_search(resp, products)
         IN  /\ op' = "semantic_search"
             /\ query' = q
             /\ top_k' = k
             /\ brand_filter' = None
             /\ response' = resp
             /\ hits' = <<>>
             /\ vector_results' = <<>>
             /\ semantic_results' = <<>>
             /\ results' = out.value
             /\ raised' = out.raised
             /\ calls' = [encode |-> 0, search |-> 0, llm |-> 1]
    /\ pc' = "returned"
    /\ UNCHANGED <<products, collection>>

(***************************************************************************)
(* Hybrid search.  combined is a dict: a list of (key, value) entries in   *)
(* insertion order.                                                        *)
(***************************************************************************)
HasKey(d, key) == \E i \in 1..Len(d) : d[i].key = key

\* d[key] = value: a new key is appended, an existing key keeps its place
DictSet(d, key, value) ==
    IF HasKey(d, key)
    THEN [i \in 1..Len(d) |-> IF d[i].key = key THEN [key |-> key, value |-> value]
                              ELSE d[i]]
    ELSE Append(d, [key |-> key, value |-> value])

DictValues(d) == [i \in 1..Len(d) |-> d[i].value]

LoopBodyOverwrite(combined, p) == DictSet(combined, p.name, p)

\* if p["name"] not in combined: combined[p["name"]] = p
LoopBody(combined, p) ==
    IF ~HasKey(combined, p.name) THEN DictSet(combined, p.name, p) ELSE combined

RECURSIVE Loop(_, _)
Loop(combined, lst) ==
    IF lst = <<>> THEN combined
    ELSE Loop(LoopBody(combined, Head(lst)), Tail(lst))

SemanticFirst(vector, semantic) == semantic \o vector

\* vector_results + semantic_results
Concatenation(vector, semantic) == vector \o semantic

ReturnAll(combined, k) == DictValues(combined)

\* list(combined.values())[:top_k]
Return(combined, k) == PySlice(DictValues(combined), k)

\* lines 141-146 of hybrid_search
Merge(vector, semantic, k) ==
    Return(Loop(<<>>, Concatenation(vector, semantic)), k)

HybridSearch ==
    /\ pc = "serving"
    /\ \E q \in Queries, k \in TopKs :
         \E v \in search_products(collection, q, k, None) :
            /\ op' = "hybrid_search"
            /\ query' = q
            /\ top_k' = k
            /\ brand_filter' = None
            /\ hits' = v.hits
            /\ IF v.raised # "none"
               THEN /\ response' = <<>>
                    /\ vector_results' = <<>>
                    /\ semantic_results' = <<>>
                    /\ results' = <<>>
                    /\ raised' = v.raised
                    /\ calls' = [encode |-> 1, search |-> 1, llm |-> 0]
               ELSE \E resp \in Responses(Len(products)) :
                       LET s == semantic_search(resp, products)
                       IN  /\ response' = resp
                           /\ vector_results' = v.value
                           /\ calls' = [encode |-> 1, search |-> 1, llm |-> 1]
                           /\ IF s.raised # "none"
                              THEN /\ semantic_results' = <<>>
                                   /\ results' = <<>>
                                   /\ raised' = s.raised
                              ELSE /\ semantic_results' = s.value
                                   /\ results' = Merge(v.value, s.value, k)
                                   /\ raised' = "none"
    /\ pc' = "returned"
    /\ UNCHANGED <<products, collection>>

NoCalls == [encode |-> 0, search |-> 0, llm |-> 0]

\* main(): the results are printed and the loop asks for the next query
NextQuery ==
    /\ pc = "returned"
    /\ pc' = "serving"
    /\ op' = "none"
    /\ query' = ""
    /\ top_k' = 0
    /\ brand_filter' = None
    /\ response' = <<>>
    /\ hits' = <<>>
    /\ vector_results' = <<>>
    /\ semantic_results' = <<>>
    /\ results' = <<>>
    /\ raised' = "none"
    /\ calls' = NoCalls
    /\ UNCHANGED <<products, collection>>

Init ==
    /\ products \in Catalogs
    /\ collection \in {NoCollection, StaleCollection}
    /\ pc = "drop"
    /\ op = "none"
    /\ query = ""
    /\ top_k = 0
    /\ brand_filter = None
    /\ response = <<>>
    /\ hits = <<>>
    /\ vector_results = <<>>
    /\ semantic_results = <<>>
    /\ results = <<>>
    /\ raised = "none"
    /\ calls = NoCalls

Next ==
    \/ DropExisting
    \/ CreateCollection
    \/ UpsertPoints
    \/ SearchProducts
    \/ SemanticSearch
    \/ HybridSearch
    \/ NextQuery

Spec == Init /\ [][Next]_vars

(***************************************************************************)
(* Properties.                                                             *)
(***************************************************************************)
\* positions of lst that hold the first occurrence of their name
FirstSeen(lst) ==
    {i \in 1..Len(lst) : \A j \in 1..(i - 1) : lst[j].name # lst[i].name}

\* lst is the first k of the first occurrences of src, in the order of src
IsFirstSeenPrefix(lst, src, k) ==
    /\ Len(lst) = Min(k, Cardinality(FirstSeen(src)))
    /\ \A n \in 1..Len(lst) :
          \E i \in FirstSeen(src) :
             /\ Cardinality({j \in FirstSeen(src) : j <= i}) = n
             /\ lst[n] = src[i]

\* the service's answer is one of the failures: transport, status, or either
\* parsing stage
IsFailure(resp) ==
    \/ resp.transport # "ok"
    \/ resp.status < 200
    \/ resp.status > 299
    \/ resp.body = "malformed"
    \/ ~resp.has_content
    \/ resp.content = "malformed"
    \/ ~resp.has_results

\* C1: for a positive top_k, whatever the vector and the semantic results are,
\* hybrid_search returns at most top_k items and no two of them share a name.
C1_HybridAtMostTopKDistinctNames ==
    (op = "hybrid_search" /\ top_k >= 1) =>
        /\ Len(results) <= top_k
        /\ \A i, j \in 1..Len(results) : i # j => results[i].name # results[j].name

\* C1 case: a semantic list longer than top_k that repeats a name, merged into
\* a full answer.
C1_Witness ==
    /\ op = "hybrid_search"
    /\ top_k >= 1
    /\ Len(semantic_results) > top_k
    /\ \E i, j \in 1..Len(semantic_results) :
          i # j /\ semantic_results[i].name = semantic_results[j].name
    /\ Len(results) = top_k

\* C2: hybrid_search returns the first top_k entries of vector_results followed
\* by semantic_results with only the first occurrence of each name kept, in
\* first-seen order; a name found in both lists is emitted as the vector record
\* (the one with a score); the length is min(top_k, number of distinct names).
C2_HybridFirstSeenVectorFirst ==
    (op = "hybrid_search" /\ top_k >= 1) =>
        /\ raised = "none"
        /\ IsFirstSeenPrefix(results, vector_results \o semantic_results, top_k)
        /\ Len(results) =
              Min(top_k, Cardinality(
                  {r.name : r \in {vector_results[i] : i \in 1..Len(vector_results)}
                              \cup {semantic_results[i] : i \in 1..Len(semantic_results)}}))
        /\ \A n \in 1..Len(results) :
              (\E i \in 1..Len(vector_results) : vector_results[i].name = results[n].name)
                 => /\ "score" \in DOMAIN results[n]
                    /\ \E i \in 1..Len(vector_results) : vector_results[i] = results[n]

\* C2 case: a name found in both lists is emitted, and so is a record that only
\* the semantic list holds.
C2_Witness ==
    /\ op = "hybrid_search"
    /\ top_k >= 1
    /\ \E n \in 1..Len(results) :
          /\ \E i \in 1..Len(vector_results) : vector_results[i].name = results[n].name
          /\ \E i \in 1..Len(semantic_results) : semantic_results[i].name = results[n].name
    /\ \E n \in 1..Len(results) : ~("score" \in DOMAIN results[n])

\* C3: when the results list of a well-formed answer holds an index outside
\* [1, N] (0, negative or above N), semantic_search returns an empty sequence.
C3_OutOfRangeIndexReturnsEmpty ==
    (/\ op = "semantic_search"
     /\ top_k >= 1
     /\ ~IsFailure(response)
     /\ \E k \in 1..Len(response.results) :
           ~(response.results[k] \in 1..Len(products)))
        => results = <<>>

\* C4: when the LLM call fails (network error, timeout, non-2xx status, malformed
\* JSON or a missing field at either parsing stage) semantic_search returns an
\* empty sequence and no exception leaves it.
C4_FailureReturnsEmptyNoException ==
    (op = "semantic_search" /\ IsFailure(response)) =>
        (raised = "none" /\ results = <<>>)

\* C4 case: the message content is not JSON, and the call returned [].
C4_Witness ==
    /\ op = "semantic_search"
    /\ response.transport = "ok"
    /\ response.content = "malformed"
    /\ raised = "none"
    /\ results = <<>>

\* C5: when the answer is well formed and every index lies in [1, N], the k-th
\* returned item is the product at the k-th index (index 1 is the first product),
\* in the order the service gave.
C5_IndicesMapToProductsInOrder ==
    (/\ op = "semantic_search"
     /\ ~IsFailure(response)
     /\ \A k \in 1..Len(response.results) : response.results[k] \in 1..Len(products))
        => /\ raised = "none"
           /\ Len(results) = Len(response.results)
           /\ \A k \in 1..Len(results) : results[k] = products[response.results[k]]

\* C5 case: the answer {"results": [2, 1]} over a catalog whose first two
\* products differ.
C5_Witness ==
    /\ op = "semantic_search"
    /\ ~IsFailure(response)
    /\ response.results = <<2, 1>>
    /\ Len(products) >= 2
    /\ products[1] # products[2]
    /\ results = <<products[2], products[1]>>

\* C6: whatever string is passed as brand_filter (the empty string included),
\* every result of search_products has exactly that brand.
C6_EveryResultHasFilterBrand ==
    (op = "search_products" /\ top_k >= 1 /\ brand_filter # None) =>
        \A n \in 1..Len(results) : results[n].brand = brand_filter[1]

\* C7: a call with top_k <= 0 is rejected as InvalidQueryParameters before any
\* embedding call, index query or LLM request is made.
C7_NonPositiveTopKRejectedBeforeCalls ==
    (op # "none" /\ top_k <= 0) =>
        (raised = "InvalidQueryParameters" /\ calls = NoCalls)

\* C8: when semantic search comes back empty, hybrid_search does not fail and
\* returns the vector results with later same-name duplicates removed, cut to
\* top_k, in vector-search order.
C8_EmptySemanticGivesVectorOnly ==
    (op = "hybrid_search" /\ top_k >= 1 /\ semantic_results = <<>>) =>
        /\ raised = "none"
        /\ IsFirstSeenPrefix(results, vector_results, top_k)

\* C8 case: the LLM call timed out while the vector results hold two different
\* records of one name.
C8_Witness ==
    /\ op = "hybrid_search"
    /\ top_k >= 1
    /\ response.transport = "TimeoutException"
    /\ semantic_results = <<>>
    /\ \E i, j \in 1..Len(vector_results) :
          /\ vector_results[i].name = vector_results[j].name
          /\ vector_results[i] # vector_results[j]
    /\ results # <<>>

\* C9: once the indexer has run, the index holds exactly one record per product:
\* the product at 0-based position i has the record with identifier i and its
\* name, price, brand and category; the record count is the catalog's length
\* and nothing of an earlier collection is left.
C9_IndexHoldsOneRecordPerProduct ==
    (pc \in {"serving", "returned"}) =>
        /\ collection.exists
        /\ Cardinality(collection.points) = Len(products)
        /\ \A p \in collection.points :
              /\ p.id \in 0..(Len(products) - 1)
              /\ p.payload.name = products[p.id + 1].name
              /\ p.payload.price = products[p.id + 1].price
              /\ p.payload.brand = products[p.id + 1].brand
              /\ p.payload.category = products[p.id + 1].category
              /\ Len(p.vector) = collection.size
        /\ \A i \in 1..Len(products) : \E p \in collection.points : p.id = i - 1

\* C9 case: the indexer has finished over a catalog of several products.
C9_Witness ==
    /\ pc = "serving"
    /\ Len(products) >= 2
    /\ products[1] # products[2]
    /\ Cardinality(collection.points) = Len(products)

\* C10: search_products returns exactly min(top_k, M) results, M being the number
\* of indexed records whose brand passes the filter, by descending score in the
\* order the index gave them, each with its score; no padding, and an empty
\* sequence rather than an error when M = 0.
C10_ReturnsMinTopKMatchesDescending ==
    (op = "search_products" /\ top_k >= 1) =>
        LET M == Cardinality({p \in collection.points :
                                 brand_filter = None \/ p.payload.brand = brand_filter[1]})
        IN  /\ raised = "none"
            /\ Len(results) = Min(top_k, M)
            /\ Len(results) = Len(hits)
            /\ \A n \in 1..Len(results) :
                  /\ results[n].score = hits[n].score
                  /\ results[n].name = hits[n].payload.name
            /\ \A n \in 1..(Len(results) - 1) : results[n].score >= results[n + 1].score
=============================================================================
